---- MODULE Spec2Model ----
(***************************************************************************)
(* Submission-and-processing pipeline of profile-photo-ai.                 *)
(*   Coordinator : backend/lambda/api/api_manager.py handle_generate_image *)
(*   Worker      : backend/lambda/process/process.py lambda_handler        *)
(*   Job Store / Quota Ledger / user table : backend/layers/dynamodb_helper*)
(* Every call to a collaborator (DynamoDB, S3, SQS, the generation API,    *)
(* the WebSocket endpoint) is a network call that either returns or        *)
(* raises; the outcome is an input of the step that makes the call.        *)
(***************************************************************************)
EXTENDS Integers, Sequences, FiniteSets, TLC

(* ------------------------------- bounds -------------------------------- *)
MaxCalls == 2          \* concurrent Submit invocations (POST /generate)
MaxDeliveries == 2     \* messages handed to the Worker, redeliveries included
MaxBatch == 2          \* records in one delivered batch
MaxDay == 2            \* calendar days (UTC) the run may span
DAILY_LIMIT == 1       \* UsageService.DAILY_LIMIT, read from the environment
MaxGenerationTime == 1 \* measured latency of the Generation Service, in ms

(* --------------------------- program constants ------------------------- *)
MAX_PROMPT_LENGTH == 2000

Users == {"u1", "u2"}
NoUser == "None"
Calls == 1 .. MaxCalls
Days == 1 .. MaxDay

\* job ids: create_job gives call c the fresh id c; UnknownJob is an id that
\* create_job never issued; NoJob is Python's None
UnknownJob == 0
NoJob == -1
JobIds == 0 .. MaxCalls

FileKeys == {"None", "uploads/a.jpg", "uploads/missing.jpg", "other/a.jpg"}
UploadedKeys == {"uploads/a.jpg"}
PromptLens == {0, 10, MAX_PROMPT_LENGTH + 1}

NoKey == <<"None", NoJob>>
NoError == "None"

VARIABLES
    users_table,      \* [Users -> [exists, total]]  (total = -1: attribute absent)
    usage_log_table,  \* [Users -> [Days -> Nat]]     count of userIdDate = user#day
    image_jobs_table, \* [JobIds -> job item]         status "absent": no item
    today,            \* the current UTC day
    queue,            \* messages the Coordinator published to the Work Queue
    deliveries,       \* messages delivered to the Worker so far
    result_bucket,    \* [output key -> number of put_object calls]
    ws_sent,          \* [job id -> pushes posted to a connection]
    upload,           \* frame of the upload handler's invocation
    query,            \* frame of a job query (status or download URL)
    call,             \* [Calls -> the frame of one handle_generate_image call]
    wk                \* the frame of the Worker's lambda_handler

vars == <<users_table, usage_log_table, image_jobs_table, today, queue,
          deliveries, result_bucket, ws_sent, upload, query, call, wk>>

(* ------------------------------ Job Store ------------------------------ *)
\* the metadata map of an item that has none
NoMetadata == [k \in {} |-> 0]

AbsentJob ==
    [status |-> "absent", userId |-> NoUser, style |-> "None",
     inputImageUrl |-> "None", prompt |-> "None", createdAt |-> 0,
     outputImageUrl |-> NoKey,
     error |-> NoError, processingTime |-> FALSE, metadata |-> NoMetadata]

\* ImageJobService.create_job: put_item of a fresh item in pending;
\* createdAt is the time of the call
create_job(tbl, job_id, user_id, style, input_url, prompt) ==
    [tbl EXCEPT ![job_id] =
        [status |-> "pending", userId |-> user_id, style |-> style,
         inputImageUrl |-> input_url, prompt |-> prompt, createdAt |-> today,
         outputImageUrl |-> NoKey,
         error |-> NoError, processingTime |-> FALSE, metadata |-> NoMetadata]]

\* keyword arguments of update_job_status that a caller leaves out
NoArgs == [output_url |-> NoKey, error |-> NoError,
           processing_time |-> FALSE, metadata |-> NoMetadata, has_metadata |-> FALSE]

\* an update that sets the status and drops every other argument
update_status_only(tbl, job_id, status, kw) ==
    [tbl EXCEPT ![job_id].status = status]

\* an update made with put_item: the item is replaced by one that carries
\* the status and the passed attributes only
update_by_put_item(tbl, job_id, status, kw) ==
    [tbl EXCEPT ![job_id] =
        [AbsentJob EXCEPT !.status = status,
                          !.outputImageUrl = kw.output_url,
                          !.error = kw.error,
                          !.processingTime = kw.processing_time,
                          !.metadata = kw.metadata]]

\* ImageJobService.update_job_status: one unconditional update_item; SET
\* status (and updatedAt) and each attribute the caller passed. update_item
\* has no ConditionExpression, so it writes whatever the item's status is
\* and creates the item when the key is absent. metadata is SET as a whole.
update_job_status(tbl, job_id, status, kw) ==
    [tbl EXCEPT ![job_id] =
        [status |-> status,
         userId |-> @.userId,
         style |-> @.style,
         inputImageUrl |-> @.inputImageUrl,
         prompt |-> @.prompt,
         createdAt |-> @.createdAt,
         outputImageUrl |-> IF kw.output_url # NoKey THEN kw.output_url
                            ELSE @.outputImageUrl,
         error |-> IF kw.error # NoError THEN kw.error ELSE @.error,
         processingTime |-> @.processingTime \/ kw.processing_time,
         metadata |-> IF kw.has_metadata THEN kw.metadata ELSE @.metadata]]

(* ----------------------------- Quota Ledger ---------------------------- *)
\* UsageService.get_today_usage: the stored count, 0 when the item is
\* absent, and 0 as well when get_item raises (the except returns 0)
get_today_usage(user_id, read_ok) ==
    IF read_ok THEN usage_log_table[user_id][today] ELSE 0

\* UsageService.can_generate_image: (remaining > 0, remaining)
can_generate_image(user_id, read_ok) ==
    LET remaining == DAILY_LIMIT - get_today_usage(user_id, read_ok)
    IN  <<remaining > 0, remaining>>

\* a ledger update that adds two
increment_usage_twice(tbl, user_id) ==
    [tbl EXCEPT ![user_id][today] = @ + 2]

\* UsageService.increment_usage: atomic SET count = if_not_exists(count,0)+1
\* on the key user#today; returns the new count
increment_usage(tbl, user_id) ==
    [tbl EXCEPT ![user_id][today] = @ + 1]

(* ------------------------------ user table ----------------------------- *)
\* UserService.create_or_update_user: put_item replaces the whole item;
\* totalImagesGenerated is written (as 0) only when the inner get_item
\* found no item or raised
create_or_update_user(tbl, user_id, inner_get_ok) ==
    [tbl EXCEPT ![user_id] =
        [exists |-> TRUE,
         total |-> IF inner_get_ok /\ @.exists THEN -1 ELSE 0]]

\* UserService.increment_total_images: atomic
\* SET totalImagesGenerated = if_not_exists(totalImagesGenerated, 0) + 1
increment_total_images(tbl, user_id) ==
    [tbl EXCEPT ![user_id] =
        [exists |-> TRUE, total |-> (IF @.total < 0 THEN 0 ELSE @.total) + 1]]

(* ------------------------------ identity ------------------------------- *)
\* requestContext.authorizer as API Gateway passes it: the claims of the
\* JWT authorizer (HTTP API), the claims of the Cognito authorizer (REST
\* API), and the fields of a Lambda authorizer; NoUser stands for a field
\* that is absent or empty
Authorizers ==
    [jwt_sub : Users \cup {NoUser}, jwt_username : Users \cup {NoUser},
     claims_sub : Users \cup {NoUser}, claims_username : Users \cup {NoUser},
     principalId : Users \cup {NoUser}, userId : Users \cup {NoUser}]

\* `a or b` of two optional strings
Or(a, b) == IF a # NoUser THEN a ELSE b

\* extract_user_id in which the REST claims are read before the JWT claims
extract_user_id_rest_first(authorizer) ==
    LET rest == Or(authorizer.claims_sub, authorizer.claims_username)
        jwt == Or(authorizer.jwt_sub, authorizer.jwt_username)
    IN  IF rest # NoUser THEN rest
        ELSE IF jwt # NoUser THEN jwt
        ELSE Or(authorizer.principalId, authorizer.userId)

\* extract_user_id: lines 590-595 (JWT claims), 598-601 (REST claims),
\* 604-606 (Lambda authorizer); None when nothing is present
extract_user_id(authorizer) ==
    LET jwt == Or(authorizer.jwt_sub, authorizer.jwt_username)
        rest == Or(authorizer.claims_sub, authorizer.claims_username)
    IN  IF jwt # NoUser THEN jwt
        ELSE IF rest # NoUser THEN rest
        ELSE Or(authorizer.principalId, authorizer.userId)

(* ------------------------- request validation -------------------------- *)
\* str.startswith('uploads/') over the file keys of the model
StartsWithUploads(file_key) ==
    file_key \in {"uploads/a.jpg", "uploads/missing.jpg"}

\* validate_generation_request without the check of the prompt's length
validate_without_length_check(file_key, prompt_len) ==
    IF file_key = "None" THEN "fileKey is required"
    ELSE IF prompt_len = 0 THEN "prompt is required"
    ELSE IF ~StartsWithUploads(file_key) THEN "Invalid file key format"
    ELSE "None"

\* validate_generation_request: the error text, or "None"
validate_generation_request(file_key, prompt_len) ==
    IF file_key = "None" THEN "fileKey is required"
    ELSE IF prompt_len = 0 THEN "prompt is required"
    ELSE IF prompt_len > MAX_PROMPT_LENGTH THEN "prompt is too long"
    ELSE IF ~StartsWithUploads(file_key) THEN "Invalid file key format"
    ELSE "None"

(* ------------------------------ messages ------------------------------- *)
\* the message body handle_generate_image publishes: no connectionId
message_body(job_id, user_id) ==
    [parsable |-> TRUE, jobId |-> job_id, userId |-> user_id,
     s3_uri |-> TRUE, prompt |-> TRUE, connectionId |-> "None"]

(* --------------------- Coordinator: handle_generate_image -------------- *)
\* The frame of a call: its locals and its response (status_code 0: none
\* yet), and a record of what the call did: seen_usage is the stored
\* counter when the quota check ran (-1: it did not run), created and
\* increments count its create_job and increment_usage calls that
\* returned, published says send_message returned, and raised names the
\* call that raised first inside the handler. file_key and
\* validation_error are the locals of lines 127 and 139.
IdleCall ==
    [pc |-> "idle", user_id |-> NoUser, job_id |-> NoJob,
     file_key |-> "None", validation_error |-> "None",
     status_code |-> 0, body_jobId |-> NoJob, remainingQuota |-> 0,
     seen_usage |-> -1, created |-> 0, published |-> FALSE, increments |-> 0,
     raised |-> "none"]

Respond(c, code, job, remaining) ==
    [call[c] EXCEPT !.pc = "done", !.status_code = code,
                    !.body_jobId = job, !.remainingQuota = remaining]

\* an existence check that takes a missing object for an existing one
HeadOutcomesAlwaysFound(file_key) == {"ok", "error"}

\* verify_s3_file_exists: head_object returns, answers 404, or raises
\* another error, which verify_s3_file_exists re-raises
HeadOutcomes(file_key) ==
    IF file_key \in UploadedKeys THEN {"ok", "error"} ELSE {"404", "error"}

\* lines 108-177: identity, body, validation, input-exists check, user
\* lookup (and creation), quota check. Only the user table is written.
CheckRequest(c) ==
    /\ call[c].pc = "idle"
    /\ \A d \in Calls : d < c => call[d].pc # "idle"
    /\ UNCHANGED <<query, upload, usage_log_table, image_jobs_table, today, queue,
                   deliveries, result_bucket, ws_sent, wk>>
    /\ \E uid \in {extract_user_id(a) : a \in Authorizers},
          body_ok \in BOOLEAN,
          file_key \in FileKeys, prompt_len \in PromptLens :
        IF uid = NoUser
        THEN /\ call' = [call EXCEPT ![c] = Respond(c, 401, NoJob, 0)]
             /\ UNCHANGED users_table
        ELSE IF ~body_ok
        THEN /\ call' = [call EXCEPT ![c] =
                    [Respond(c, 400, NoJob, 0) EXCEPT !.user_id = uid]]
             /\ UNCHANGED users_table
        ELSE IF validate_generation_request(file_key, prompt_len) # "None"
        THEN /\ call' = [call EXCEPT ![c] =
                    [Respond(c, 400, NoJob, 0) EXCEPT
                        !.user_id = uid, !.file_key = file_key,
                        !.validation_error =
                            validate_generation_request(file_key,
                                                        prompt_len)]]
             /\ UNCHANGED users_table
        ELSE \E head \in HeadOutcomes(file_key) :
            IF head # "ok"
            THEN /\ call' = [call EXCEPT ![c] =
                        [Respond(c, IF head = "404" THEN 404 ELSE 500,
                                 NoJob, 0) EXCEPT !.user_id = uid,
                                                  !.file_key = file_key]]
                 /\ UNCHANGED users_table
            ELSE \E get_user_ok \in BOOLEAN, inner_get_ok \in BOOLEAN,
                    put_ok \in BOOLEAN, read_ok \in BOOLEAN :
                LET found == get_user_ok /\ users_table[uid].exists
                    can == can_generate_image(uid, read_ok)
                IN  IF ~found /\ ~put_ok
                    THEN /\ call' = [call EXCEPT ![c] =
                                [Respond(c, 500, NoJob, 0)
                                    EXCEPT !.user_id = uid,
                                           !.file_key = file_key]]
                         /\ UNCHANGED users_table
                    ELSE /\ users_table' =
                                IF found THEN users_table
                                ELSE create_or_update_user(users_table, uid,
                                                           inner_get_ok)
                         /\ call' = [call EXCEPT ![c] =
                                IF can[1]
                                THEN [@ EXCEPT !.pc = "create",
                                        !.user_id = uid,
                                        !.file_key = file_key,
                                        !.seen_usage =
                                            usage_log_table[uid][today]]
                                ELSE [Respond(c, 429, NoJob, 0) EXCEPT
                                        !.user_id = uid,
                                        !.file_key = file_key,
                                        !.seen_usage =
                                            usage_log_table[uid][today]]]

\* lines 182-188: ImageJobService.create_job; a put_item that raises is
\* caught by the outer except (lines 275-279)
CreateJob(c) ==
    /\ call[c].pc = "create"
    /\ UNCHANGED <<query, upload, users_table, usage_log_table, today, queue, deliveries,
                   result_bucket, ws_sent, wk>>
    /\ \E ok \in BOOLEAN :
        IF ok
        THEN /\ image_jobs_table' =
                    create_job(image_jobs_table, c, call[c].user_id,
                               "custom", call[c].file_key, "prompt")
             /\ call' = [call EXCEPT ![c].pc = "publish", ![c].job_id = c,
                                     ![c].created = @ + 1]
        ELSE /\ call' = [call EXCEPT ![c] =
                    [Respond(c, 500, NoJob, 0) EXCEPT !.raised = "create_job"]]
             /\ UNCHANGED image_jobs_table

\* a publish whose failure is swallowed: the call goes on to the increment
SendMessageUnchecked(c) ==
    /\ call[c].pc = "publish"
    /\ UNCHANGED <<query, upload, users_table, usage_log_table, image_jobs_table, today,
                   deliveries, result_bucket, ws_sent, wk>>
    /\ \E ok \in BOOLEAN :
        /\ queue' = IF ok
                    THEN queue \cup
                            {message_body(call[c].job_id, call[c].user_id)}
                    ELSE queue
        /\ call' = [call EXCEPT ![c].pc = "increment",
                                ![c].published = ok]

\* lines 206-225: sqs_client.send_message; a raise enters the except of
\* line 259
SendMessage(c) ==
    /\ call[c].pc = "publish"
    /\ UNCHANGED <<query, upload, users_table, usage_log_table, image_jobs_table, today,
                   deliveries, result_bucket, ws_sent, wk>>
    /\ \E ok \in BOOLEAN :
        IF ok
        THEN /\ queue' = queue \cup
                    {message_body(call[c].job_id, call[c].user_id)}
             /\ call' = [call EXCEPT ![c].pc = "increment",
                                     ![c].published = TRUE]
        ELSE /\ call' = [call EXCEPT ![c].pc = "compensate",
                                     ![c].raised = "send_message"]
             /\ UNCHANGED queue

\* lines 227-229: UsageService.increment_usage, inside the same try
IncrementUsage(c) ==
    /\ call[c].pc = "increment"
    /\ UNCHANGED <<query, upload, users_table, image_jobs_table, today, queue, deliveries,
                   result_bucket, ws_sent, wk>>
    /\ \E ok \in BOOLEAN :
        IF ok
        THEN /\ usage_log_table' =
                    increment_usage(usage_log_table, call[c].user_id)
             /\ call' = [call EXCEPT
                    ![c].pc = "queued",
                    ![c].increments = @ + 1,
                    ![c].remainingQuota = DAILY_LIMIT -
                        usage_log_table'[call[c].user_id][today]]
        ELSE /\ call' = [call EXCEPT ![c].pc = "compensate",
                                     ![c].raised = "increment_usage"]
             /\ UNCHANGED usage_log_table

\* lines 236-257: update_job_status(queued, metadata) and the 200 response
MarkQueued(c) ==
    /\ call[c].pc = "queued"
    /\ UNCHANGED <<query, upload, users_table, usage_log_table, today, queue, deliveries,
                   result_bucket, ws_sent, wk>>
    /\ \E ok \in BOOLEAN :
        IF ok
        THEN /\ image_jobs_table' =
                    update_job_status(image_jobs_table, call[c].job_id,
                        "queued",
                        [NoArgs EXCEPT
                            !.metadata = [sqsMessageId |-> "MessageId"],
                                       !.has_metadata = TRUE])
             /\ call' = [call EXCEPT ![c] =
                    Respond(c, 200, call[c].job_id, call[c].remainingQuota)]
        ELSE /\ call' = [call EXCEPT ![c].pc = "compensate",
                                     ![c].raised = "update_job_status"]
             /\ UNCHANGED image_jobs_table

\* the compensating update written without its error argument
MarkFailedNoError(c) ==
    /\ call[c].pc = "compensate"
    /\ UNCHANGED <<query, upload, users_table, usage_log_table, today, queue, deliveries,
                   result_bucket, ws_sent, wk>>
    /\ \E ok \in BOOLEAN :
        IF ok
        THEN /\ image_jobs_table' =
                    update_job_status(image_jobs_table, call[c].job_id,
                        "failed", NoArgs)
             /\ call' = [call EXCEPT ![c] =
                    Respond(c, 500, call[c].job_id, 0)]
        ELSE /\ call' = [call EXCEPT ![c] = Respond(c, 500, NoJob, 0)]
             /\ UNCHANGED image_jobs_table

\* lines 259-273: the except of the publish block marks the Job failed and
\* answers 500 with the jobId; if that update raises, the outer except
\* (lines 275-279) answers 500 without it
MarkFailed(c) ==
    /\ call[c].pc = "compensate"
    /\ UNCHANGED <<query, upload, users_table, usage_log_table, today, queue, deliveries,
                   result_bucket, ws_sent, wk>>
    /\ \E ok \in BOOLEAN :
        IF ok
        THEN /\ image_jobs_table' =
                    update_job_status(image_jobs_table, call[c].job_id,
                        "failed",
                        [NoArgs EXCEPT !.error = "Failed to queue job"])
             /\ call' = [call EXCEPT ![c] =
                    Respond(c, 500, call[c].job_id, 0)]
        ELSE /\ call' = [call EXCEPT ![c] = Respond(c, 500, NoJob, 0)]
             /\ UNCHANGED image_jobs_table

\* datetime.utcnow() passes midnight
NextDay ==
    /\ today < MaxDay
    /\ today' = today + 1
    /\ UNCHANGED <<query, upload, users_table, usage_log_table, image_jobs_table, queue,
                   deliveries, result_bucket, ws_sent, call, wk>>

(* ----------------------- Worker: process.lambda_handler ---------------- *)
\* WEBSOCKET_ENDPOINT is configured, so api_gateway_client is not None
api_gateway_client == TRUE

\* a key derived from the owner alone
output_key_per_owner(user_id, job_id) == <<user_id, UnknownJob>>

\* line 211: output_key = f"generated/{user_id}/{job_id}.png"
output_key(user_id, job_id) == <<user_id, job_id>>
OutputKeys == Users \X JobIds

\* MODEL_NAME (line 63, default) and the latencies line 152 can measure
MODEL_NAME == "gemini-2.5-flash-image"
GenerationTimes == 0 .. MaxGenerationTime

Garbage ==
    [parsable |-> FALSE, jobId |-> NoJob, userId |-> NoUser,
     s3_uri |-> FALSE, prompt |-> FALSE, connectionId |-> "None"]

\* What a Work Queue fed by other producers too can hand to the Worker:
\* the published messages carrying a connectionId (the optional field of
\* the message schema), the same stripped of their prompt, a body that is
\* not JSON, a body without jobId, and a body naming a job id the Job
\* Store has never seen.
Deliverable ==
    {[m EXCEPT !.connectionId = "c1"] : m \in queue}
    \cup {[m EXCEPT !.prompt = FALSE, !.connectionId = "c1"] : m \in queue}
    \cup {Garbage,
          [message_body(NoJob, "u1") EXCEPT !.connectionId = "c1"],
          message_body(UnknownJob, "u1")}

Batches(messages) ==
    UNION {[1 .. n -> messages] : n \in 1 .. MaxBatch}

IdleWorker ==
    [pc |-> "idle", batch |-> <<>>, i |-> 0,
     job_id |-> NoJob, user_id |-> NoUser, connection_id |-> "unbound",
     processed_count |-> 0, failed_count |-> 0, error_message |-> NoError,
     seen |-> "none"]

\* lines 71-80: the Lambda service invokes the handler with a batch of
\* records and a context object. Line 76 reads context.request_id before
\* the loop and outside every try: a context without that attribute (None,
\* as the repository's direct invocations pass, or the Lambda runtime's
\* context, whose attribute is aws_request_id as api_manager.py line 52
\* reads it) makes the handler raise AttributeError. A message stays
\* deliverable after it was delivered (at-least-once).
Deliver(messages) ==
    /\ wk.pc = "idle"
    /\ \E batch \in Batches(messages), has_request_id \in BOOLEAN :
        /\ deliveries + Len(batch) <= MaxDeliveries
        /\ deliveries' = deliveries + Len(batch)
        /\ wk' = IF has_request_id
                 THEN [IdleWorker EXCEPT !.pc = "record", !.batch = batch,
                                         !.i = 1]
                 ELSE [IdleWorker EXCEPT !.pc = "raised", !.batch = batch]
    /\ UNCHANGED <<query, upload, users_table, usage_log_table, image_jobs_table, today,
                   queue, result_bucket, ws_sent, call>>

\* the frame after the body of the for loop ended for record i
NextRecord(f) ==
    [f EXCEPT !.i = @ + 1,
              !.pc = IF f.i + 1 > Len(f.batch) THEN "return" ELSE "record"]

\* a check of the required fields that leaves the prompt out
HasRequiredDataButPrompt(m) ==
    m.jobId # NoJob /\ m.userId # NoUser /\ m.s3_uri

\* line 102: all([job_id, user_id, s3_uri, prompt])
HasRequiredData(m) ==
    m.jobId # NoJob /\ m.userId # NoUser /\ m.s3_uri /\ m.prompt

\* lines 81-106: reset job_id and user_id, parse the body, check the
\* required fields, update_job_status(job_id, 'processing')
StartRecord ==
    /\ wk.pc = "record"
    /\ UNCHANGED <<query, upload, users_table, usage_log_table, today, queue, deliveries,
                   result_bucket, ws_sent, call>>
    /\ LET m == wk.batch[wk.i] IN
        IF ~m.parsable
        THEN /\ wk' = [wk EXCEPT !.pc = "except", !.job_id = NoJob,
                                 !.user_id = NoUser, !.seen = "none",
                                 !.error_message = "Invalid JSON"]
             /\ UNCHANGED image_jobs_table
        ELSE LET f == [wk EXCEPT
                        !.job_id = m.jobId, !.user_id = m.userId,
                        !.connection_id = m.connectionId,
                        !.seen = IF m.jobId = NoJob THEN "none"
                                 ELSE image_jobs_table[m.jobId].status]
             IN IF ~HasRequiredData(m)
                THEN /\ wk' = [f EXCEPT !.pc = "except",
                                  !.error_message = "Missing required data"]
                     /\ UNCHANGED image_jobs_table
                ELSE \E ok \in BOOLEAN :
                    IF ok
                    THEN /\ image_jobs_table' =
                                update_job_status(image_jobs_table, m.jobId,
                                                  "processing", NoArgs)
                         /\ wk' = [f EXCEPT !.pc = "generate"]
                    ELSE /\ wk' = [f EXCEPT !.pc = "except",
                                      !.error_message = "exception"]
                         /\ UNCHANGED image_jobs_table

\* lines 108-208: get_object of the input, generate_content, and the
\* search of the first candidate's parts for an image
GenerationOutcomes ==
    {"image", "exception", "no candidates", "no image data"}

Generate ==
    /\ wk.pc = "generate"
    /\ UNCHANGED <<query, upload, users_table, usage_log_table, image_jobs_table, today,
                   queue, deliveries, result_bucket, ws_sent, call>>
    /\ \E r \in GenerationOutcomes :
        wk' = IF r = "image" THEN [wk EXCEPT !.pc = "upload"]
              ELSE [wk EXCEPT !.pc = "except", !.error_message = r]

\* the upload step going on to the write of completed when put_object raised
UploadUnchecked ==
    /\ wk.pc = "upload"
    /\ UNCHANGED <<query, upload, users_table, usage_log_table, image_jobs_table, today,
                   queue, deliveries, ws_sent, call>>
    /\ \E ok \in BOOLEAN :
        /\ result_bucket' =
                IF ok
                THEN [result_bucket EXCEPT
                        ![output_key(wk.user_id, wk.job_id)] = @ + 1]
                ELSE result_bucket
        /\ wk' = [wk EXCEPT !.pc = "complete"]

\* lines 210-229: put_object under output_key
Upload ==
    /\ wk.pc = "upload"
    /\ UNCHANGED <<query, upload, users_table, usage_log_table, image_jobs_table, today,
                   queue, deliveries, ws_sent, call>>
    /\ \E ok \in BOOLEAN :
        IF ok
        THEN /\ result_bucket' = [result_bucket EXCEPT
                    ![output_key(wk.user_id, wk.job_id)] = @ + 1]
             /\ wk' = [wk EXCEPT !.pc = "complete"]
        ELSE /\ wk' = [wk EXCEPT !.pc = "except",
                                 !.error_message = "exception"]
             /\ UNCHANGED result_bucket

\* a Worker that charges the owner's quota when it completes a Job
CompleteChargingQuota ==
    /\ wk.pc = "complete"
    /\ UNCHANGED <<query, upload, users_table, today, queue, deliveries,
                   result_bucket, ws_sent, call>>
    /\ \E ok \in BOOLEAN, generation_time \in GenerationTimes :
        IF ok
        THEN /\ image_jobs_table' =
                    update_job_status(image_jobs_table, wk.job_id,
                        "completed",
                        [output_url |-> output_key(wk.user_id, wk.job_id),
                         error |-> NoError, processing_time |-> TRUE,
                         metadata |->
                            [generationTime |-> generation_time,
                             modelName |-> MODEL_NAME,
                             outputKey |-> output_key(wk.user_id, wk.job_id),
                             s3Uri |-> output_key(wk.user_id, wk.job_id)],
                         has_metadata |-> TRUE])
             /\ usage_log_table' = increment_usage(usage_log_table, wk.user_id)
             /\ wk' = [wk EXCEPT !.pc = "stats"]
        ELSE /\ wk' = [wk EXCEPT !.pc = "except",
                                 !.error_message = "exception"]
             /\ UNCHANGED <<image_jobs_table, usage_log_table>>

\* lines 237-250: update_job_status(completed, output_url, processing_time,
\* metadata). generationTime is the time.time() difference taken around
\* generate_content (lines 131 and 152), in milliseconds.
Complete ==
    /\ wk.pc = "complete"
    /\ UNCHANGED <<query, upload, users_table, usage_log_table, today, queue, deliveries,
                   result_bucket, ws_sent, call>>
    /\ \E ok \in BOOLEAN, generation_time \in GenerationTimes :
        IF ok
        THEN /\ image_jobs_table' =
                    update_job_status(image_jobs_table, wk.job_id,
                        "completed",
                        [output_url |-> output_key(wk.user_id, wk.job_id),
                         error |-> NoError, processing_time |-> TRUE,
                         metadata |->
                            [generationTime |-> generation_time,
                             modelName |-> MODEL_NAME,
                             outputKey |-> output_key(wk.user_id, wk.job_id),
                             s3Uri |-> output_key(wk.user_id, wk.job_id)],
                         has_metadata |-> TRUE])
             /\ wk' = [wk EXCEPT !.pc = "stats"]
        ELSE /\ wk' = [wk EXCEPT !.pc = "except",
                                 !.error_message = "exception"]
             /\ UNCHANGED image_jobs_table

\* one more post_to_connection that returned
Pushed(sent, job_id, type) ==
    IF type = "image_completed"
    THEN [sent EXCEPT ![job_id].image_completed = @ + 1]
    ELSE [sent EXCEPT ![job_id].image_failed = @ + 1]

\* the handler with the completion push outside any try: a push that
\* raises is handled as a failure of the record
FinishPushUncaught ==
    /\ wk.pc = "stats"
    /\ UNCHANGED <<query, upload, usage_log_table, image_jobs_table, today, queue,
                   deliveries, result_bucket, call>>
    /\ \E ok \in BOOLEAN, push_ok \in BOOLEAN :
        IF ok /\ (push_ok \/ wk.connection_id # "c1")
        THEN /\ users_table' = increment_total_images(users_table, wk.user_id)
             /\ ws_sent' =
                    IF wk.connection_id = "c1" /\ api_gateway_client
                    THEN Pushed(ws_sent, wk.job_id, "image_completed")
                    ELSE ws_sent
             /\ wk' = NextRecord([wk EXCEPT !.processed_count = @ + 1])
        ELSE /\ users_table' =
                    IF ok
                    THEN increment_total_images(users_table, wk.user_id)
                    ELSE users_table
             /\ wk' = [wk EXCEPT !.pc = "except",
                                 !.error_message = "exception"]
             /\ UNCHANGED ws_sent

\* lines 252-292: increment_total_images, then the completion push when
\* the message carried a connectionId (a push that raises is logged), then
\* processed_count += 1
Finish ==
    /\ wk.pc = "stats"
    /\ UNCHANGED <<query, upload, usage_log_table, image_jobs_table, today, queue,
                   deliveries, result_bucket, call>>
    /\ \E ok \in BOOLEAN, push_ok \in BOOLEAN :
        IF ok
        THEN /\ users_table' = increment_total_images(users_table, wk.user_id)
             /\ ws_sent' =
                    IF wk.connection_id = "c1" /\ api_gateway_client /\ push_ok
                    THEN Pushed(ws_sent, wk.job_id, "image_completed")
                    ELSE ws_sent
             /\ wk' = NextRecord([wk EXCEPT !.processed_count = @ + 1])
        ELSE /\ wk' = [wk EXCEPT !.pc = "except",
                                 !.error_message = "exception"]
             /\ UNCHANGED <<users_table, ws_sent>>

\* the handler refunding the owner's quota when a Job fails
HandleFailureRefund ==
    /\ wk.pc = "except"
    /\ UNCHANGED <<query, upload, users_table, today, queue, deliveries, result_bucket,
                   call, ws_sent>>
    /\ \E ok \in BOOLEAN :
        /\ image_jobs_table' =
                IF wk.job_id # NoJob /\ ok
                THEN update_job_status(image_jobs_table, wk.job_id, "failed",
                        [NoArgs EXCEPT !.error = wk.error_message,
                                       !.processing_time = TRUE])
                ELSE image_jobs_table
        /\ usage_log_table' =
                IF wk.user_id # NoUser
                   /\ usage_log_table[wk.user_id][today] > 0
                THEN [usage_log_table EXCEPT ![wk.user_id][today] = @ - 1]
                ELSE usage_log_table
        /\ wk' = [wk EXCEPT !.failed_count = @ + 1, !.i = @ + 1,
                    !.pc = IF wk.i + 1 > Len(wk.batch) THEN "return"
                           ELSE "record"]

\* the handler leaving the loop at the first record that fails
HandleFailureAbort ==
    /\ wk.pc = "except"
    /\ UNCHANGED <<query, upload, users_table, usage_log_table, today, queue, deliveries,
                   result_bucket, call, ws_sent>>
    /\ \E ok \in BOOLEAN :
        /\ image_jobs_table' =
                IF wk.job_id # NoJob /\ ok
                THEN update_job_status(image_jobs_table, wk.job_id, "failed",
                        [NoArgs EXCEPT !.error = wk.error_message,
                                       !.processing_time = TRUE])
                ELSE image_jobs_table
        /\ wk' = [wk EXCEPT !.failed_count = @ + 1, !.pc = "return"]

\* the failure branch writing failed without the error
HandleFailureWithoutError ==
    /\ wk.pc = "except"
    /\ UNCHANGED <<query, upload, users_table, usage_log_table, today, queue, deliveries,
                   result_bucket, call>>
    /\ \E ok \in BOOLEAN, push_ok \in BOOLEAN :
        /\ image_jobs_table' =
                IF wk.job_id # NoJob /\ ok
                THEN update_job_status(image_jobs_table, wk.job_id, "failed",
                        [NoArgs EXCEPT !.processing_time = TRUE])
                ELSE image_jobs_table
        /\ ws_sent' =
                IF wk.connection_id = "c1" /\ api_gateway_client /\ push_ok
                THEN Pushed(ws_sent, wk.job_id, "image_failed")
                ELSE ws_sent
        /\ wk' = NextRecord([wk EXCEPT !.failed_count = @ + 1])

\* lines 294-351: failed_count += 1; when job_id is set,
\* update_job_status(failed, error, processing_time) inside its own
\* try/except; then the failure push when connection_id is bound and set
HandleFailure ==
    /\ wk.pc = "except"
    /\ UNCHANGED <<query, upload, users_table, usage_log_table, today, queue, deliveries,
                   result_bucket, call>>
    /\ \E ok \in BOOLEAN, push_ok \in BOOLEAN :
        /\ image_jobs_table' =
                IF wk.job_id # NoJob /\ ok
                THEN update_job_status(image_jobs_table, wk.job_id, "failed",
                        [NoArgs EXCEPT !.error = wk.error_message,
                                       !.processing_time = TRUE])
                ELSE image_jobs_table
        /\ ws_sent' =
                IF wk.connection_id = "c1" /\ api_gateway_client /\ push_ok
                THEN Pushed(ws_sent, wk.job_id, "image_failed")
                ELSE ws_sent
        /\ wk' = NextRecord([wk EXCEPT !.failed_count = @ + 1])

\* lines 353-366: the handler returns 200 with the tally
Return ==
    /\ wk.pc = "return"
    /\ wk' = IdleWorker
    /\ UNCHANGED <<query, upload, users_table, usage_log_table, image_jobs_table, today,
                   queue, deliveries, result_bucket, ws_sent, call>>

\* the invocation ended with the exception of line 76; nothing was written
Raised ==
    /\ wk.pc = "raised"
    /\ wk' = IdleWorker
    /\ UNCHANGED <<query, upload, users_table, usage_log_table, image_jobs_table, today,
                   queue, deliveries, result_bucket, ws_sent, call>>

(* ------------- upload handler: file_transfer.lambda_handler ------------ *)
ALLOWED_EXTENSIONS == {".jpg", ".jpeg", ".png", ".webp"}

ALLOWED_CONTENT_TYPES == {"image/jpeg", "image/png", "image/webp"}

MAX_FILE_SIZE == 10 * 1024 * 1024

\* body.get('fileName'): absent, or a name with or without an extension
UploadNames == {"None", "photo.jpg", "PHOTO.PNG", "photo.gif", "photo"}

\* body.get('contentType'): absent, an allowed type, another type
UploadContentTypes == ALLOWED_CONTENT_TYPES \cup {"None", "image/gif"}

\* a JSON value of fileSize: a number, or a value of another type (a
\* string, null) that Python does not order against an int
Number(n) == [number |-> TRUE, value |-> n]

NotANumber == [number |-> FALSE, value |-> 0]

\* body.get('fileSize', 0): an absent fileSize is the number 0
UploadSizes ==
    {Number(n) : n \in {-1, 0, 1, MAX_FILE_SIZE, MAX_FILE_SIZE + 1}}
        \cup {NotANumber}

\* os.path.splitext(file_name.lower())[1]
splitext_lower(file_name) ==
    CASE file_name = "photo.jpg" -> ".jpg"
      [] file_name = "PHOTO.PNG" -> ".png"
      [] file_name = "photo.gif" -> ".gif"
      [] OTHER -> ""

\* "TypeError": the comparison file_size > MAX_FILE_SIZE raised
validate_upload_request(file_name, content_type, file_size) ==
    IF file_name = "None" THEN "fileName is required"
    ELSE IF content_type = "None" THEN "contentType is required"
    ELSE IF content_type \notin ALLOWED_CONTENT_TYPES
    THEN "Unsupported content type"
    ELSE IF splitext_lower(file_name) \notin ALLOWED_EXTENSIONS
    THEN "Unsupported file extension"
    ELSE IF ~file_size.number THEN "TypeError"
    ELSE IF file_size.value > MAX_FILE_SIZE THEN "File size exceeds maximum"
    ELSE IF file_size.value <= 0 THEN "Invalid file size"
    ELSE "None"

IdleUpload ==
    [pc |-> "idle", user_id |-> NoUser, body |-> "None",
     file_name |-> "None", content_type |-> "None", file_size |-> Number(0),
     validation_error |-> "None", presigned |-> 0, status_code |-> 0,
     raised |-> "none"]

\* lines 64-100: identity, body, validation
ValidateUpload ==
    /\ upload.pc = "idle"
    /\ \E user_id \in Users \cup {NoUser}, body \in {"invalid json", "object"},
          file_name \in UploadNames, content_type \in UploadContentTypes,
          file_size \in UploadSizes :
        IF user_id = NoUser
        THEN upload' = [upload EXCEPT !.pc = "done", !.status_code = 401]
        ELSE IF body # "object"
        THEN upload' = [upload EXCEPT !.pc = "done", !.user_id = user_id,
                                      !.body = body, !.status_code = 400]
        ELSE LET validation_error ==
                     validate_upload_request(file_name, content_type,
                                             file_size)
                 f == [upload EXCEPT !.user_id = user_id, !.body = body,
                                     !.file_name = file_name,
                                     !.content_type = content_type,
                                     !.file_size = file_size]
             IN  IF validation_error = "TypeError"
                 THEN upload' = [f EXCEPT !.pc = "done",
                                          !.raised = "TypeError",
                                          !.status_code = 500]
                 ELSE IF validation_error # "None"
                 THEN upload' = [f EXCEPT
                                     !.pc = "done",
                                     !.validation_error = validation_error,
                                     !.status_code = 400]
                 ELSE upload' = [f EXCEPT !.pc = "presign"]
    /\ UNCHANGED <<query, users_table, usage_log_table, image_jobs_table, today,
                   queue, deliveries, result_bucket, ws_sent, call, wk>>

\* lines 102-142: generate_presigned_upload_url returns a URL or raises
PresignUpload ==
    /\ upload.pc = "presign"
    /\ \E ok \in BOOLEAN :
        IF ok
        THEN upload' = [upload EXCEPT !.pc = "done", !.presigned = @ + 1,
                                      !.status_code = 200]
        ELSE upload' = [upload EXCEPT !.pc = "done", !.raised = "presign",
                                      !.status_code = 500]
    /\ UNCHANGED <<query, users_table, usage_log_table, image_jobs_table, today,
                   queue, deliveries, result_bucket, ws_sent, call, wk>>

\* the response is returned; the next invocation starts from a new frame
ReturnUpload ==
    /\ upload.pc = "done"
    /\ upload' = IdleUpload
    /\ UNCHANGED <<query, users_table, usage_log_table, image_jobs_table, today,
                   queue, deliveries, result_bucket, ws_sent, call, wk>>

(* ------- job queries: handle_get_job and handle_download_image --------- *)
\* what the path of a query can name: a job id, or nothing
QueryJobIds == JobIds \cup {NoJob}

\* a frame: the caller, the job id of the path, whether get_job's read
\* returned, and the response: its status code, the Job item of its body
\* (AbsentJob: the body carries no field of a Job) and the key its
\* presigned URL gives access to (NoKey: the body carries no URL)
IdleQuery ==
    [pc |-> "idle", handler |-> "None", user_id |-> NoUser,
     job_id |-> NoJob, read_ok |-> TRUE, status_code |-> 0,
     job |-> AbsentJob, url |-> NoKey]

\* an owner check that lets every caller through
IsAnyCaller(job, user_id) == TRUE

\* lines 316 and 541: job.get('userId') != user_id
IsOwner(job, user_id) == job.userId = user_id

\* ImageJobService.get_job: the item, or None (AbsentJob) when there is no
\* item and when get_item raises
get_job(job_id, read_ok) ==
    IF read_ok THEN image_jobs_table[job_id] ELSE AbsentJob

\* the response of a query that carries an error message only
QueryError(f, code) == [f EXCEPT !.pc = "done", !.status_code = code]

\* handle_get_job (GET /jobs/{jobId}): 401 without identity, 400 without
\* job id, 404 when get_job returns nothing, 403 for a caller other than
\* the owner, else 200 with the item; the outputImageUrl of a completed Job
\* is replaced by a presigned URL, or by None when presigning raises
GetJob ==
    /\ query.pc = "idle"
    /\ \E user_id \in Users \cup {NoUser}, job_id \in QueryJobIds,
          read_ok \in BOOLEAN, presign_ok \in BOOLEAN :
        LET f == [query EXCEPT !.handler = "get_job", !.user_id = user_id,
                               !.job_id = job_id]
        IN  IF user_id = NoUser THEN query' = QueryError(f, 401)
            ELSE IF job_id = NoJob THEN query' = QueryError(f, 400)
            ELSE LET job == get_job(job_id, read_ok)
                     g == [f EXCEPT !.read_ok = read_ok]
                 IN  IF job.status = "absent"
                     THEN query' = QueryError(g, 404)
                     ELSE IF ~IsOwner(job, user_id)
                     THEN query' = QueryError(g, 403)
                     ELSE IF job.status = "completed"
                             /\ job.outputImageUrl # NoKey
                     THEN query' =
                            [g EXCEPT
                                !.pc = "done", !.status_code = 200,
                                !.job = [job EXCEPT !.outputImageUrl =
                                            IF presign_ok THEN @ ELSE NoKey],
                                !.url = IF presign_ok
                                        THEN job.outputImageUrl ELSE NoKey]
                     ELSE query' = [g EXCEPT !.pc = "done",
                                             !.status_code = 200,
                                             !.job = job]
    /\ UNCHANGED <<users_table, usage_log_table, image_jobs_table, today,
                   queue, deliveries, result_bucket, ws_sent, upload, call,
                   wk>>

\* handle_download_image (GET /jobs/{jobId}/download): the same checks,
\* then 400 for a Job that is not completed, 404 when metadata names no
\* output, else 200 with a presigned URL of the output (500 when
\* presigning raises)
DownloadImage ==
    /\ query.pc = "idle"
    /\ \E user_id \in Users \cup {NoUser}, job_id \in QueryJobIds,
          read_ok \in BOOLEAN, presign_ok \in BOOLEAN :
        LET f == [query EXCEPT !.handler = "download", !.user_id = user_id,
                               !.job_id = job_id]
        IN  IF user_id = NoUser THEN query' = QueryError(f, 401)
            ELSE IF job_id = NoJob THEN query' = QueryError(f, 400)
            ELSE LET job == get_job(job_id, read_ok)
                     g == [f EXCEPT !.read_ok = read_ok]
                 IN  IF job.status = "absent"
                     THEN query' = QueryError(g, 404)
                     ELSE IF ~IsOwner(job, user_id)
                     THEN query' = QueryError(g, 403)
                     ELSE IF job.status # "completed"
                     THEN query' = QueryError(g, 400)
                     ELSE IF "outputKey" \notin DOMAIN job.metadata
                             /\ "s3Uri" \notin DOMAIN job.metadata
                     THEN query' = QueryError(g, 404)
                     ELSE IF ~presign_ok
                     THEN query' = QueryError(g, 500)
                     ELSE query' =
                            [g EXCEPT
                                !.pc = "done", !.status_code = 200,
                                !.url =
                                    IF "outputKey" \in DOMAIN job.metadata
                                    THEN job.metadata.outputKey
                                    ELSE job.metadata.s3Uri]
    /\ UNCHANGED <<users_table, usage_log_table, image_jobs_table, today,
                   queue, deliveries, result_bucket, ws_sent, upload, call,
                   wk>>

\* the response is returned; the next query starts from a new frame
ReturnQuery ==
    /\ query.pc = "done"
    /\ query' = IdleQuery
    /\ UNCHANGED <<users_table, usage_log_table, image_jobs_table, today,
                   queue, deliveries, result_bucket, ws_sent, upload, call,
                   wk>>

(* ------------------------------ the system ----------------------------- *)
\* a fresh deployment: every table, the queue and the buckets are empty
Init ==
    /\ users_table = [u \in Users |-> [exists |-> FALSE, total |-> -1]]
    /\ usage_log_table = [u \in Users |-> [d \in Days |-> 0]]
    /\ image_jobs_table = [j \in JobIds |-> AbsentJob]
    /\ today = 1
    /\ queue = {}
    /\ deliveries = 0
    /\ result_bucket = [k \in OutputKeys |-> 0]
    /\ ws_sent = [j \in JobIds \cup {NoJob} |->
                    [image_completed |-> 0, image_failed |-> 0]]
    /\ call = [c \in Calls |-> IdleCall]
    /\ wk = IdleWorker
    /\ upload = IdleUpload
    /\ query = IdleQuery

\* the state after user u1's first Submit of the day returned 200: its
\* Job is queued, its message is in the queue, its counter is 1
InitWorker ==
    /\ users_table = [u \in Users |->
            IF u = "u1" THEN [exists |-> TRUE, total |-> 0]
            ELSE [exists |-> FALSE, total |-> -1]]
    /\ usage_log_table = [u \in Users |-> [d \in Days |->
            IF u = "u1" /\ d = 1 THEN 1 ELSE 0]]
    /\ image_jobs_table = [j \in JobIds |->
            IF j = 1
            THEN [status |-> "queued", userId |-> "u1", style |-> "custom",
                  inputImageUrl |-> "uploads/a.jpg", prompt |-> "prompt",
                  createdAt |-> 1,
                  outputImageUrl |-> NoKey, error |-> NoError,
                  processingTime |-> FALSE,
                  metadata |-> [sqsMessageId |-> "MessageId"]]
            ELSE AbsentJob]
    /\ today = 1
    /\ queue = {message_body(1, "u1")}
    /\ deliveries = 0
    /\ result_bucket = [k \in OutputKeys |-> 0]
    /\ ws_sent = [j \in JobIds \cup {NoJob} |->
                    [image_completed |-> 0, image_failed |-> 0]]
    /\ call = [c \in Calls |->
            IF c = 1
            THEN [pc |-> "done", user_id |-> "u1", job_id |-> 1,
                  file_key |-> "uploads/a.jpg",
                  validation_error |-> "None",
                  status_code |-> 200, body_jobId |-> 1,
                  remainingQuota |-> DAILY_LIMIT - 1, seen_usage |-> 0,
                  created |-> 1, published |-> TRUE, increments |-> 1,
                  raised |-> "none"]
            ELSE IdleCall]
    /\ wk = IdleWorker
    /\ upload = IdleUpload
    /\ query = IdleQuery

Coordinator(c) ==
    \/ CheckRequest(c)
    \/ CreateJob(c)
    \/ SendMessage(c)
    \/ IncrementUsage(c)
    \/ MarkQueued(c)
    \/ MarkFailed(c)

Worker ==
    \/ StartRecord
    \/ Generate
    \/ Upload
    \/ Complete
    \/ Finish
    \/ HandleFailure
    \/ Return
    \/ Raised

\* the pipeline: a Submit call beside the Worker, which is handed the
\* messages the Coordinator published
Next ==
    \/ Coordinator(1)
    \/ Deliver(queue)
    \/ Worker

Spec == Init /\ [][Next]_vars

\* concurrent Submit calls over a change of day
NextSubmit ==
    \/ \E c \in Calls : Coordinator(c)
    \/ NextDay

SpecSubmit == Init /\ [][NextSubmit]_vars

\* the Worker against a queue that other producers write to as well
NextWorker ==
    \/ Deliver(Deliverable)
    \/ Worker

SpecWorker == InitWorker /\ [][NextWorker]_vars

\* invocations of the upload handler
NextUpload ==
    \/ ValidateUpload
    \/ PresignUpload
    \/ ReturnUpload

SpecUpload == Init /\ [][NextUpload]_vars

\* job queries while the Worker processes the message of u1's Job
NextQuery ==
    \/ Deliver(queue)
    \/ Worker
    \/ GetJob
    \/ DownloadImage
    \/ ReturnQuery

SpecQuery == InitWorker /\ [][NextQuery]_vars

(* ------------------------------- claims -------------------------------- *)
RECURSIVE SumUpTo(_, _)
SumUpTo(f, n) == IF n = 0 THEN 0 ELSE f[n] + SumUpTo(f, n - 1)

\* the stored counters of a user, all days together
StoredCount(u) == SumUpTo(usage_log_table[u], MaxDay)

\* the increment_usage calls that returned to calls of user u
IncrementsFor(u) ==
    SumUpTo([c \in Calls |->
                IF call[c].user_id = u THEN call[c].increments ELSE 0],
            MaxCalls)

\* call c went past validation, the input-exists check and the quota check
PassedChecks(c) ==
    /\ call[c].seen_usage >= 0
    /\ ~(call[c].pc = "done" /\ call[c].status_code = 429)

Returned(c) == call[c].pc = "done"

\* C1 as claimed: every Submit call that passed validation, the
\* input-exists check and the quota check has created exactly one Job, and
\* has incremented the counter exactly once if and only if its publish
\* succeeded.
C1_ExactlyOneJobAndIncrementIffPublished ==
    \A c \in Calls :
        Returned(c) /\ PassedChecks(c) =>
            /\ call[c].created = 1
            /\ call[c].increments <= 1
            /\ call[c].increments = 1 <=> call[c].published

\* C1 amended: a call that passed the checks creates at most one Job, and
\* exactly one unless create_job itself raised (then nothing is published
\* or charged); it increments the counter at most once, never without a
\* successful publish, and exactly once if and only if the publish
\* succeeded and increment_usage itself returned. The stored counters
\* are exactly the increments made.
C1_AtMostOneJobIncrementOnlyAfterPublish ==
    /\ \A u \in Users : StoredCount(u) = IncrementsFor(u)
    /\ \A c \in Calls :
        /\ call[c].created <= 1
        /\ call[c].increments <= 1
        /\ call[c].increments = 1 => call[c].published
        /\ call[c].published => call[c].created = 1
        /\ call[c].created = 1 <=> image_jobs_table[c].status # "absent"
        /\ Returned(c) /\ PassedChecks(c) =>
            /\ call[c].created = 1 <=> call[c].raised # "create_job"
            /\ call[c].increments = 1 <=>
                    (call[c].published /\ call[c].raised # "increment_usage")

\* C1 witness: one call returned 200 having published and incremented
\* once, another returned after its publish failed, without an increment
C1_Witness ==
    \E c, d \in Calls :
        /\ Returned(c) /\ call[c].status_code = 200
        /\ call[c].published /\ call[c].increments = 1
        /\ Returned(d) /\ call[d].raised = "send_message"
        /\ call[d].created = 1 /\ call[d].increments = 0

\* C2 as claimed: when the publish fails, the Job of the call ends failed
\* with an error, the counter is not incremented, no message of the Job is
\* in the queue, and the error response carries the jobId.
C2_PublishFailureCompensated ==
    \A c \in Calls :
        Returned(c) /\ call[c].raised = "send_message" =>
            /\ image_jobs_table[c].status = "failed"
            /\ image_jobs_table[c].error # NoError
            /\ call[c].increments = 0
            /\ message_body(c, call[c].user_id) \notin queue
            /\ call[c].status_code = 500
            /\ call[c].body_jobId = c

\* C2 amended: when the publish fails, the counter is not incremented, no
\* message of the Job is in the queue and the response is a 500; the
\* response carries the jobId and the Job is failed with an error when the
\* compensating update returned; when that update raised too, the Job is
\* still pending, without an error, and the 500 carries no jobId.
C2_PublishFailureCompensatedIfUpdateReturns ==
    \A c \in Calls :
        Returned(c) /\ call[c].raised = "send_message" =>
            /\ call[c].increments = 0
            /\ message_body(c, call[c].user_id) \notin queue
            /\ call[c].status_code = 500
            /\ IF call[c].body_jobId = c
               THEN /\ image_jobs_table[c].status = "failed"
                    /\ image_jobs_table[c].error # NoError
               ELSE /\ call[c].body_jobId = NoJob
                    /\ image_jobs_table[c].status = "pending"
                    /\ image_jobs_table[c].error = NoError

\* C2 witness: a call whose publish failed returned 500 with its jobId
C2_Witness ==
    \E c \in Calls :
        /\ Returned(c) /\ call[c].raised = "send_message"
        /\ call[c].body_jobId = c
        /\ image_jobs_table[c].status = "failed"

\* C3 as claimed: a Submit whose quota check runs while the stored counter
\* of (owner, today) is at or above DAILY_LIMIT returns 429 with
\* remainingQuota 0, creates no Job, publishes nothing and increments
\* nothing.
C3_QuotaExceededRejected ==
    \A c \in Calls :
        call[c].seen_usage >= DAILY_LIMIT =>
            /\ Returned(c)
            /\ call[c].status_code = 429
            /\ call[c].remainingQuota = 0
            /\ call[c].created = 0
            /\ ~call[c].published
            /\ call[c].increments = 0

\* the Worker is inside the loop body, working on record wk.i
InRecord == wk.pc \in {"record", "generate", "upload", "complete", "stats",
                       "except"}

\* C4 as claimed: a delivery that finds its Job already completed is a
\* no-op: none of its steps writes the Object Store, changes the Job's
\* status from completed, or pushes a notification.
C4_RedeliveryAfterCompletedIsNoOp ==
    [][wk'.seen = "completed" =>
            /\ image_jobs_table'[wk'.job_id].status = "completed"
            /\ result_bucket' = result_bucket
            /\ ws_sent' = ws_sent]_vars

\* C5 as claimed: a delivery that finds its Job already failed is a no-op:
\* the Worker does not set it to processing, does not go on to the
\* Generation Service, and leaves the Job record (status and error) as it
\* was.
C5_RedeliveryAfterFailedIsNoOp ==
    [][wk'.seen = "failed" =>
            /\ image_jobs_table'[wk'.job_id] = image_jobs_table[wk'.job_id]
            /\ wk'.pc \notin {"generate", "upload", "complete", "stats"}]_vars

\* C6 as claimed: completed and failed are terminal: no step changes the
\* status of a Job that is completed or failed.
C6_TerminalStatusesAreFinal ==
    [][\A j \in JobIds :
            image_jobs_table[j].status \in {"completed", "failed"} =>
                image_jobs_table'[j].status = image_jobs_table[j].status]_vars

\* C7 as claimed: the write of queued never moves a Job backward: a step
\* that sets a Job's status to queued finds it pending, never processing,
\* completed or failed.
C7_QueuedOnlyReplacesPending ==
    [][\A j \in JobIds :
            (image_jobs_table'[j].status = "queued"
             /\ image_jobs_table[j].status # "queued") =>
                image_jobs_table[j].status = "pending"]_vars

\* C8 as claimed: whenever the loop leaves a record whose jobId was
\* readable, that Job is completed or failed (so a malformed message with a
\* readable jobId leaves its Job failed), and the loop goes on to the next
\* position.
C8_EveryRecordDrivenToCompletedOrFailed ==
    [][(wk.pc \in {"stats", "except"} /\ wk'.i = wk.i + 1
        /\ wk.job_id # NoJob) =>
            image_jobs_table'[wk.job_id].status \in {"completed", "failed"}]_vars

\* C8 amended: the loop body ends for every position of the batch whatever
\* happened at the positions before it: a failure at any step of a record
\* is handled and the loop moves to the next position, and the handler
\* returns only after the last one. When the loop leaves a record whose
\* jobId was readable, the Job is completed or failed, unless the update
\* that records failed itself raised: that is logged, the Job Store is
\* left as it was, and the loop still goes on.
C8_LoopNeverStopsJobFailedUnlessUpdateRaises ==
    /\ [](wk.pc = "return" => wk.i = Len(wk.batch) + 1)
    /\ [](InRecord => wk.i \in 1 .. Len(wk.batch))
    /\ [][(wk.pc \in {"stats", "except"} /\ wk' # wk
           /\ wk'.pc # "except") =>
            /\ wk'.i = wk.i + 1
            /\ wk'.pc = IF wk'.i <= Len(wk.batch) THEN "record" ELSE "return"
            /\ \/ wk.job_id = NoJob
               \/ image_jobs_table'[wk.job_id].status
                        \in {"completed", "failed"}
               \/ wk.pc = "except" /\ image_jobs_table' = image_jobs_table]_vars

\* C8 witness: the handler is returning from a batch whose first record
\* lacked its prompt and left Job 1 failed, and whose second record was
\* processed to completed
C8_Witness ==
    /\ wk.pc = "return"
    /\ Len(wk.batch) = 2
    /\ ~HasRequiredData(wk.batch[1]) /\ wk.batch[1].jobId = 1
    /\ image_jobs_table[1].status = "failed"
    /\ wk.batch[2] = message_body(UnknownJob, "u1")
    /\ image_jobs_table[UnknownJob].status = "completed"
    /\ wk.failed_count = 1 /\ wk.processed_count = 1

\* C9 as claimed: the batch handler never raises for a batch of records;
\* inside the loop every record before the current one has been counted
\* exactly once, and the handler returns a tally with processed + failed
\* equal to the number of records.
C9_HandlerNeverRaisesReturnsTally ==
    /\ wk.pc # "raised"
    /\ InRecord => wk.processed_count + wk.failed_count = wk.i - 1
    /\ wk.pc = "return" =>
            wk.processed_count + wk.failed_count = Len(wk.batch)

\* C10: no step of the Coordinator or of the Worker lowers the counter of
\* any (owner, day) key.
C10_CounterNeverDecreases ==
    [][\A u \in Users, d \in Days :
            usage_log_table'[u][d] >= usage_log_table[u][d]]_vars

\* C10 witness: after a successful publish and increment the Worker failed
\* the Job, and the owner's counter is still at the incremented value
C10_Witness ==
    \E u \in Users :
        /\ Returned(1) /\ call[1].status_code = 200 /\ call[1].user_id = u
        /\ usage_log_table[u][today] = 1
        /\ wk.pc = "return" /\ wk.failed_count = 1
        /\ image_jobs_table[1].status = "failed"
        /\ image_jobs_table[1].error \in
                {"exception", "no candidates", "no image data"}

\* the step in which call c's increment_usage returns
IncrementReturns(c) == call[c].pc = "increment" /\ call'[c].pc = "queued"

\* C11 as claimed: soft quota limit. An increment takes the owner's counter
\* of the day to at most DailyLimit plus the number of increments that
\* concurrent calls of the same owner committed since this call's quota
\* check (at most N - 1 of them); a call that no other call overlapped
\* (N = 1) never takes the counter above DailyLimit.
C11_SoftQuotaLimit ==
    [][\A c \in Calls :
        IncrementReturns(c) =>
            LET u == call[c].user_id
                others == usage_log_table[u][today] - call[c].seen_usage
            IN  usage_log_table'[u][today] <=
                    DAILY_LIMIT + (IF others > 0 THEN others ELSE 0)]_vars

\* C12 as claimed: the remainingQuota of a 200 response is DailyLimit minus
\* the counter value the call's own increment produced; a call that found
\* the counter at DailyLimit - 1 and was not overlapped answers 200 with
\* remainingQuota 0; and the next call of the owner, whose quota check
\* runs with the counter at DailyLimit, is rejected with 429.
C12_RemainingQuotaThenRejected ==
    [][\A c \in Calls :
        LET u == call'[c].user_id IN
        /\ IncrementReturns(c) =>
                call'[c].remainingQuota =
                    DAILY_LIMIT - usage_log_table'[u][today]
        /\ (call[c].pc = "queued" /\ call'[c].status_code = 200) =>
                /\ call'[c].remainingQuota = call[c].remainingQuota
                /\ (call[c].seen_usage = DAILY_LIMIT - 1
                    /\ usage_log_table[u][today] = DAILY_LIMIT) =>
                        call'[c].remainingQuota = 0
        /\ (call[c].pc = "idle" /\ call'[c].seen_usage = DAILY_LIMIT) =>
                call'[c].pc = "done" /\ call'[c].status_code = 429]_vars

\* call c has returned without creating a Job, publishing or incrementing
NoEffects(c) ==
    /\ call[c].created = 0
    /\ ~call[c].published
    /\ call[c].increments = 0
    /\ call[c].job_id = NoJob

\* the step in which call c runs its checks leaves every store as it was
ChecksWriteNothing(c) ==
    (call[c].pc = "idle" /\ call'[c].pc = "done") =>
        /\ image_jobs_table' = image_jobs_table
        /\ usage_log_table' = usage_log_table
        /\ queue' = queue
        /\ users_table' = users_table

\* call c got as far as the existence check with a file key that names no
\* object of the upload bucket
MissingInput(c) ==
    /\ call[c].file_key # "None"
    /\ call[c].validation_error = "None"
    /\ call[c].file_key \notin UploadedKeys

\* C13 as claimed: a Submit whose input object does not exist returns 404,
\* creates no Job, publishes no message and leaves the counter unchanged.
C13_MissingInputReturns404 ==
    \A c \in Calls :
        (Returned(c) /\ MissingInput(c)) =>
            call[c].status_code = 404 /\ NoEffects(c)

\* C13 amended: a Submit whose input object does not exist never gets past
\* the existence check: it returns 404 when the Object Store answers not
\* found and 500 when the existence check fails with any other error; in
\* both cases no Job is created, nothing is published, and no store is
\* written. 404 is returned for a missing input only.
C13_MissingInputRejectedWithoutEffects ==
    /\ [](\A c \in Calls :
            /\ MissingInput(c) =>
                    /\ Returned(c)
                    /\ call[c].status_code \in {404, 500}
                    /\ NoEffects(c)
            /\ call[c].status_code = 404 => MissingInput(c))
    /\ [][\A c \in Calls :
            call'[c].status_code = 404 => ChecksWriteNothing(c)]_vars

\* C13 witness: a call for uploads/missing.jpg has returned 404 while the
\* owner's counter holds an earlier call's increment
C13_Witness ==
    \E c \in Calls :
        /\ Returned(c) /\ call[c].status_code = 404
        /\ call[c].file_key = "uploads/missing.jpg"
        /\ usage_log_table[call[c].user_id][today] = 1

\* the inputs validate_generation_request must reject
BadInput(file_key, prompt_len) ==
    \/ file_key = "None"
    \/ prompt_len = 0
    \/ prompt_len > MAX_PROMPT_LENGTH
    \/ ~StartsWithUploads(file_key)

RECURSIVE FirstPresent(_)
FirstPresent(seq) ==
    IF seq = <<>> THEN NoUser
    ELSE IF Head(seq) # NoUser THEN Head(seq)
    ELSE FirstPresent(Tail(seq))

\* C20: extract_user_id returns the first identity present in the order
\* JWT sub, JWT cognito:username, REST sub, REST cognito:username,
\* principalId, userId, and nothing when none is present; a Submit with no
\* identity returns 401 and changes no state, and 401 is returned for no
\* other reason.
C20_IdentityPrecedenceAndUnauthorized ==
    /\ [][\A c \in Calls :
            (call[c].pc = "idle" /\ call'[c].pc # "idle") =>
                \A a \in Authorizers :
                    extract_user_id(a) =
                        FirstPresent(<<a.jwt_sub, a.jwt_username,
                                       a.claims_sub, a.claims_username,
                                       a.principalId, a.userId>>)]_vars
    /\ [](\A c \in Calls :
            /\ (Returned(c) /\ call[c].user_id = NoUser) =>
                    call[c].status_code = 401 /\ NoEffects(c)
            /\ call[c].status_code = 401 => call[c].user_id = NoUser
            /\ call[c].pc \notin {"idle", "done"} =>
                    call[c].user_id \in Users)
    /\ [][\A c \in Calls :
            call'[c].status_code = 401 => ChecksWriteNothing(c)]_vars

\* C20 witness: a call without identity has returned 401 after another
\* call was queued, and the queue still holds only that call's message
C20_Witness ==
    \E c \in Calls, d \in Calls :
        /\ Returned(c) /\ call[c].status_code = 401
        /\ Returned(d) /\ call[d].status_code = 200
        /\ queue = {message_body(d, call[d].user_id)}
        /\ image_jobs_table[c] = AbsentJob

\* the errors of lines 163 and 198: the Generation Service produced no image
NoImageErrors == {"no candidates", "no image data"}

\* C15 as claimed: when the Generation Service returns no candidate or no
\* image payload, no step of that delivery writes the Object Store, and
\* when the loop leaves the record the Job is failed with the error that
\* says no image was produced and with outputRef absent.
C15_NoImageFailsJobWithoutOutput ==
    [][/\ (wk'.pc = "except" /\ wk'.error_message \in NoImageErrors) =>
                result_bucket' = result_bucket
       /\ (wk.pc = "except" /\ wk.error_message \in NoImageErrors
           /\ wk'.i = wk.i + 1) =>
                /\ result_bucket' = result_bucket
                /\ image_jobs_table'[wk.job_id].status = "failed"
                /\ image_jobs_table'[wk.job_id].error = wk.error_message
                /\ image_jobs_table'[wk.job_id].outputImageUrl = NoKey]_vars

RECURSIVE PushesFrom(_)
PushesFrom(j) ==
    IF j > MaxCalls THEN 0
    ELSE ws_sent[j].image_completed + ws_sent[j].image_failed
         + PushesFrom(j + 1)

\* the delivered records whose loop body has ended
Handled ==
    deliveries - (IF wk.pc = "raised" THEN Len(wk.batch)
                  ELSE IF InRecord THEN Len(wk.batch) - wk.i + 1
                  ELSE 0)

\* C17: a failure of the Notification Channel never changes Job state and
\* is never retried. Once the statistics update of a completed record has
\* returned, the record is counted as processed and the Job Store is left
\* alone whether the completion push returns or fails; the failure branch
\* leaves the Job failed (or untouched, when its own write raised) whether
\* the failure push returns or fails; each step pushes at most once, no
\* delivered record accounts for more than one push, and the loop goes on
\* to the next record.
C17_PushFailureChangesNothing ==
    /\ [](PushesFrom(NoJob) <= Handled)
    /\ [][/\ (wk.pc = "stats" /\ users_table' # users_table) =>
                /\ image_jobs_table' = image_jobs_table
                /\ wk'.processed_count = wk.processed_count + 1
                /\ wk'.failed_count = wk.failed_count
                /\ wk' = NextRecord([wk EXCEPT !.processed_count = @ + 1])
                /\ ws_sent' \in {ws_sent,
                        Pushed(ws_sent, wk.job_id, "image_completed")}
          /\ (wk.pc = "except" /\ wk' # wk) =>
                /\ wk' = NextRecord([wk EXCEPT !.failed_count = @ + 1])
                /\ ws_sent' \in {ws_sent,
                        Pushed(ws_sent, wk.job_id, "image_failed")}
                /\ \A j \in JobIds :
                        \/ image_jobs_table'[j] = image_jobs_table[j]
                        \/ /\ j = wk.job_id
                           /\ image_jobs_table'[j].status = "failed"]_vars

\* C17 witness: the first record of a batch carried a connectionId, its
\* Job is completed and no completion push went through; both records of
\* the batch were counted as processed
C17_Witness ==
    /\ wk.pc = "return"
    /\ Len(wk.batch) = 2
    /\ wk.batch[1] = [message_body(1, "u1") EXCEPT !.connectionId = "c1"]
    /\ wk.batch[2] = message_body(UnknownJob, "u1")
    /\ image_jobs_table[1].status = "completed"
    /\ ws_sent[1].image_completed = 0
    /\ wk.processed_count = 2

\* The pipeline under the scheduling the claim assumes: a handler that was
\* invoked runs on to its end (every collaborator call returns or raises),
\* and the Work Queue keeps handing its messages to the Worker.
SpecLive ==
    /\ Init
    /\ [][Next]_vars
    /\ WF_vars(Coordinator(1))
    /\ WF_vars(Deliver(queue))
    /\ WF_vars(Worker)

\* C18 as claimed: every Job created by Submit eventually reaches completed
\* or failed and stays there; none remains forever in pending, queued or
\* processing.
C18_EveryJobEventuallyTerminal ==
    \A j \in Calls :
        [](image_jobs_table[j].status # "absent" =>
            <>[](image_jobs_table[j].status \in {"completed", "failed"}))
\* the request fails one of the checks the upload handler is to make: its
\* content type or its extension is not allowed, or its file size is above
\* the maximum or is not a positive number
BadUpload(file_name, content_type, file_size) ==
    \/ content_type \notin ALLOWED_CONTENT_TYPES
    \/ splitext_lower(file_name) \notin ALLOWED_EXTENSIONS
    \/ file_size.number /\ file_size.value > MAX_FILE_SIZE
    \/ ~(file_size.number /\ file_size.value > 0)

\* C19: an authenticated upload request with a JSON object as body that
\* fails a check (content type, extension, size above 10 MB or not positive)
\* is answered 400 and no presigned URL is generated; one that passes the
\* checks is answered 200 after exactly one presigned URL was generated,
\* unless generating it raised.
C19_UploadHandlerValidates ==
    (upload.pc \in {"presign", "done"} /\ upload.body = "object") =>
        IF BadUpload(upload.file_name, upload.content_type, upload.file_size)
        THEN /\ upload.pc = "done"
             /\ upload.status_code = 400
             /\ upload.presigned = 0
        ELSE upload.pc = "done" =>
                \/ upload.status_code = 200 /\ upload.presigned = 1
                \/ /\ upload.raised = "presign"
                   /\ upload.status_code = 500
                   /\ upload.presigned = 0

\* the record the Worker is at lacks a required field other than jobId
LacksRequiredField ==
    /\ wk.pc \in {"record", "except"}
    /\ wk.i \in 1 .. Len(wk.batch)
    /\ LET m == wk.batch[wk.i] IN
        /\ m.parsable
        /\ m.jobId # NoJob
        /\ m.userId = NoUser \/ ~m.s3_uri \/ ~m.prompt

\* the record the Worker is at has no jobId, or its body is not JSON
LacksJobId ==
    /\ wk.pc \in {"record", "except"}
    /\ wk.i \in 1 .. Len(wk.batch)
    /\ ~wk.batch[wk.i].parsable \/ wk.batch[wk.i].jobId = NoJob

\* the loop goes on: the handler is at the next record or returns the tally
Continues ==
    /\ wk'.i = wk.i + 1
    /\ wk'.batch = wk.batch
    /\ wk'.pc = IF wk.i + 1 > Len(wk.batch) THEN "return" ELSE "record"

\* C21 as claimed: the failure branch of a record that lacks a required
\* field but carries a jobId leaves that Job failed.
C21_MissingFieldRecordsFailed ==
    [][(wk.pc = "except" /\ LacksRequiredField) =>
            image_jobs_table'[wk.job_id].status = "failed"]_vars

\* C21 amended: a record that lacks a required field but carries a jobId
\* goes from the field check straight to the failure branch, with no write
\* of processing, no read of the Object Store and no call of the Generation
\* Service; the failure branch writes failed with the error of the check,
\* or leaves the Job Store as it was when that write raises, and the loop
\* continues with the next record. For a record without jobId or with an
\* unparsable body no step writes the Job Store.
C21_MissingFieldFailsWithoutProcessing ==
    /\ [][(wk.pc = "record" /\ LacksRequiredField) =>
            /\ wk'.pc = "except"
            /\ wk'.error_message = "Missing required data"
            /\ wk'.job_id = wk.batch[wk.i].jobId
            /\ image_jobs_table' = image_jobs_table
            /\ result_bucket' = result_bucket]_vars
    /\ [][(wk.pc = "except" /\ LacksRequiredField) =>
            /\ \/ image_jobs_table' = image_jobs_table
               \/ image_jobs_table' =
                    update_job_status(image_jobs_table, wk.job_id, "failed",
                        [NoArgs EXCEPT !.error = "Missing required data",
                                       !.processing_time = TRUE])
            /\ result_bucket' = result_bucket
            /\ Continues]_vars
    /\ [][LacksJobId =>
            /\ image_jobs_table' = image_jobs_table
            /\ wk.pc = "record" => wk'.pc = "except"
            /\ wk.pc = "except" => Continues]_vars

\* a Job failed by the field check while the batch goes on with its second
\* record
C21_Witness ==
    /\ image_jobs_table[1].status = "failed"
    /\ image_jobs_table[1].error = "Missing required data"
    /\ wk.pc = "record"
    /\ wk.i = 2
    /\ ~wk.batch[1].prompt
    /\ wk.batch[1].jobId = 1

\* what str(e) can be after a step of the Worker raised
StepErrors == {"exception", "no candidates", "no image data"}

\* the Worker is in the failure branch of a record one of whose steps raised
StepFailed ==
    /\ wk.pc = "except"
    /\ wk.job_id # NoJob
    /\ wk.error_message \in StepErrors

\* C22 as claimed: when a step of the Worker failed, the failure branch
\* leaves the Job failed with the error of that step.
C22_StepFailureLeavesJobFailed ==
    [][StepFailed =>
            /\ image_jobs_table'[wk.job_id].status = "failed"
            /\ image_jobs_table'[wk.job_id].error = wk.error_message]_vars

\* C22 amended: when a step of the Worker failed, the failure branch makes
\* one write of failed carrying the error of that step; the Job is failed
\* with that error when the write returns and is left as it was when the
\* write raises. A failure push for the Job is posted at most once, and
\* only when the message carried a connection id; the loop continues.
C22_StepFailureWritesFailedOnce ==
    [][StepFailed =>
            /\ \/ image_jobs_table' = image_jobs_table
               \/ /\ image_jobs_table' =
                        update_job_status(image_jobs_table, wk.job_id,
                            "failed",
                            [NoArgs EXCEPT !.error = wk.error_message,
                                           !.processing_time = TRUE])
                  /\ image_jobs_table'[wk.job_id].status = "failed"
                  /\ image_jobs_table'[wk.job_id].error = wk.error_message
            /\ IF wk.connection_id = "c1"
               THEN ws_sent' \in {ws_sent,
                                  Pushed(ws_sent, wk.job_id, "image_failed")}
               ELSE ws_sent' = ws_sent
            /\ Continues]_vars

\* the generation of Job 1 returned no image: the Job is failed with that
\* error and the failure push reached the connection
C22_Witness ==
    /\ wk.pc \in {"record", "return"}
    /\ wk.failed_count = 1
    /\ wk.error_message = "no image data"
    /\ wk.seen = "queued"
    /\ image_jobs_table[1].status = "failed"
    /\ image_jobs_table[1].error = "no image data"
    /\ ws_sent[1].image_failed = 1

\* the transitions of the Job state machine, and the creation of a record
Transitions ==
    {<<"absent", "pending">>,
     <<"pending", "queued">>, <<"pending", "failed">>,
     <<"queued", "processing">>,
     <<"processing", "completed">>, <<"processing", "failed">>}

\* C23 as claimed: every change of a Job's status is the creation in
\* pending or one of the five transitions; in particular processing is
\* written only over queued.
C23_OnlyTableTransitions ==
    [][\A j \in JobIds :
        image_jobs_table'[j].status # image_jobs_table[j].status =>
            <<image_jobs_table[j].status, image_jobs_table'[j].status>>
                \in Transitions]_vars

\* C24 as claimed: a Job record carries an error if and only if its status
\* is failed.
C24_ErrorIffFailed ==
    \A j \in JobIds :
        image_jobs_table[j].status # "absent" =>
            (image_jobs_table[j].error # NoError
                <=> image_jobs_table[j].status = "failed")

\* C25 as claimed: outputImageUrl is present on completed Jobs only.
C25_OutputOnlyOnCompleted ==
    \A j \in JobIds :
        image_jobs_table[j].outputImageUrl # NoKey =>
            image_jobs_table[j].status = "completed"

\* the objects of the result bucket
Stored(key) == key \in OutputKeys /\ result_bucket[key] > 0

\* C26: Worker step order. The output object is written only by the step
\* that follows a generation that returned an image, the write of completed
\* is made only by the step that follows the write of the object, and a
\* generation that failed sends the record to the failure branch, which
\* writes no object; so the outputImageUrl of every completed Job addresses
\* an object of the result bucket.
C26_CompletedOutputExists ==
    /\ [](\A j \in JobIds :
            image_jobs_table[j].status = "completed" =>
                Stored(image_jobs_table[j].outputImageUrl))
    /\ [][/\ result_bucket' # result_bucket =>
                wk.pc = "upload" /\ wk'.pc = "complete"
          /\ (wk'.pc = "upload" /\ wk.pc # "upload") => wk.pc = "generate"
          /\ (wk'.pc = "complete" /\ wk.pc # "complete") =>
                /\ wk.pc = "upload"
                /\ result_bucket'[output_key(wk.user_id, wk.job_id)] =
                        result_bucket[output_key(wk.user_id, wk.job_id)] + 1
          /\ (\E j \in JobIds :
                /\ image_jobs_table'[j].status = "completed"
                /\ image_jobs_table[j] # image_jobs_table'[j]) =>
                    /\ wk.pc = "complete"
                    /\ Stored(output_key(wk.user_id, wk.job_id))
          /\ (wk.pc = "generate" /\ wk'.pc = "except") =>
                result_bucket' = result_bucket
          /\ wk.pc = "except" => result_bucket' = result_bucket]_vars

\* Job 1 is completed and its output object is in the result bucket
C26_Witness ==
    /\ image_jobs_table[1].status = "completed"
    /\ image_jobs_table[1].outputImageUrl = output_key("u1", 1)
    /\ result_bucket[output_key("u1", 1)] = 1
    /\ wk.pc = "stats"

\* C27: Coordinator step order within one Submit. The Job record is created
\* in pending before the message is published, the counter is incremented
\* only after the publish returned, and queued is written only after the
\* increment: no call has incremented without having published, no call
\* has published without having created its Job, and every message in the
\* Work Queue names a Job that has a record.
C27_CoordinatorStepOrder ==
    /\ [](\A c \in Calls :
            /\ call[c].increments > 0 => call[c].published
            /\ call[c].published =>
                    /\ call[c].created = 1
                    /\ image_jobs_table[call[c].job_id].status # "absent")
    /\ [](\A m \in queue : image_jobs_table[m.jobId].status # "absent")
    /\ [][\A c \in Calls :
            /\ call'[c].created # call[c].created =>
                    /\ ~call[c].published /\ ~call'[c].published
                    /\ call'[c].increments = 0
                    /\ image_jobs_table[call'[c].job_id].status = "absent"
                    /\ image_jobs_table'[call'[c].job_id].status = "pending"
                    /\ queue' = queue
            /\ (call'[c].published /\ ~call[c].published) =>
                    /\ image_jobs_table[call[c].job_id].status # "absent"
                    /\ call'[c].increments = 0
                    /\ usage_log_table' = usage_log_table
            /\ call'[c].increments # call[c].increments =>
                    /\ call[c].published
                    /\ message_body(call[c].job_id, call[c].user_id) \in queue
                    /\ image_jobs_table[call[c].job_id].status # "absent"
            /\ (image_jobs_table'[c].status = "queued"
                /\ image_jobs_table[c].status # "queued") =>
                    /\ call[c].job_id = c
                    /\ call[c].pc = "queued"
                    /\ call[c].published
                    /\ call[c].increments = 1]_vars

\* a Submit returned 200 after create, publish, increment and queued
C27_Witness ==
    \E c \in Calls :
        /\ call[c].pc = "done"
        /\ call[c].status_code = 200
        /\ call[c].created = 1
        /\ call[c].published
        /\ call[c].increments = 1
        /\ image_jobs_table[call[c].job_id].status = "queued"
        /\ message_body(call[c].job_id, call[c].user_id) \in queue

\* C28 as claimed: a record appears in the Job Store only by the
\* Coordinator's create_job, in pending; no step of the Worker gives a
\* record to a job id that had none.
C28_OnlyCoordinatorCreatesRecords ==
    [][\A j \in JobIds :
        (image_jobs_table[j].status = "absent"
         /\ image_jobs_table'[j].status # "absent") =>
            /\ image_jobs_table'[j].status = "pending"
            /\ \E c \in Calls : call[c].pc = "create" /\ call'[c].job_id = j
            /\ wk' = wk]_vars

\* C29 as claimed: metadata is additive. No write removes a key from a
\* Job's metadata; the sqsMessageId recorded with queued is still there
\* after the write of completed.
C29_MetadataAdditive ==
    [][\A j \in JobIds :
        DOMAIN image_jobs_table[j].metadata
            \subseteq DOMAIN image_jobs_table'[j].metadata]_vars

\* C30: no write changes the submission parameters of an existing Job: the
\* userId, inputImageUrl, prompt, style and createdAt a record has are the
\* ones it keeps in every later state (its jobId is the key of the record).
C30_SubmissionParametersImmutable ==
    [][\A j \in JobIds :
        image_jobs_table[j].status # "absent" =>
            /\ image_jobs_table'[j].status # "absent"
            /\ image_jobs_table'[j].userId = image_jobs_table[j].userId
            /\ image_jobs_table'[j].inputImageUrl =
                    image_jobs_table[j].inputImageUrl
            /\ image_jobs_table'[j].prompt = image_jobs_table[j].prompt
            /\ image_jobs_table'[j].style = image_jobs_table[j].style
            /\ image_jobs_table'[j].createdAt =
                    image_jobs_table[j].createdAt]_vars

\* Job 1 went through queued and processing to completed and still has the
\* parameters call 1 created it with
C30_Witness ==
    /\ image_jobs_table[1].status = "completed"
    /\ call[1].pc = "done"
    /\ call[1].status_code = 200
    /\ image_jobs_table[1].userId = call[1].user_id
    /\ image_jobs_table[1].inputImageUrl = call[1].file_key
    /\ image_jobs_table[1].prompt = "prompt"
    /\ image_jobs_table[1].style = "custom"
    /\ image_jobs_table[1].createdAt = 1

\* C31: the Worker never writes the Quota Ledger. Every step of the
\* Worker's handler, from the delivery of a batch to its return, whatever
\* the outcome of each record, leaves every counter as it was.
C31_WorkerLeavesLedgerAlone ==
    [][wk' # wk => usage_log_table' = usage_log_table]_vars

\* the Worker has handled a batch of two records, one completed and one
\* failed, and the owner's counter is the one the Coordinator wrote
C31_Witness ==
    /\ wk.pc = "return"
    /\ wk.processed_count = 1
    /\ wk.failed_count = 1
    /\ call[1].increments = 1
    /\ usage_log_table[call[1].user_id][today] = 1

\* the objects the result bucket holds
StoredKeys == {key \in OutputKeys : result_bucket[key] > 0}

\* C32: the output key is a function of (userId, jobId) only. The only
\* step that writes the result bucket is the upload of the record at hand,
\* and it writes the one key derived from that record's userId and jobId:
\* a second delivery of the same message writes the same key again and
\* adds no object. The keys of two different job ids differ.
C32_OutputKeyDeterministic ==
    /\ [](\A u1 \in Users, u2 \in Users, j1 \in JobIds, j2 \in JobIds :
            j1 # j2 => output_key(u1, j1) # output_key(u2, j2))
    /\ [][result_bucket' # result_bucket =>
            /\ wk.pc = "upload"
            /\ LET m == wk.batch[wk.i]
                   key == output_key(m.userId, m.jobId)
               IN  /\ result_bucket' =
                            [result_bucket EXCEPT ![key] = @ + 1]
                   /\ StoredKeys' = StoredKeys \cup {key}]_vars

\* the message of Job 1 was delivered twice and its output written twice:
\* the bucket holds one object, under the key of (u1, 1)
C32_Witness ==
    /\ result_bucket[output_key("u1", 1)] = 2
    /\ StoredKeys = {output_key("u1", 1)}

\* C33 as claimed: a Submit that returned a response other than 200 has
\* not incremented the counter.
C33_ErrorResponseLeavesCounter ==
    \A c \in Calls :
        (Returned(c) /\ call[c].status_code # 200) => call[c].increments = 0

\* C34 as claimed: when the Coordinator's compensating write of failed
\* runs, no message of that Job is in the Work Queue, and a Job the
\* Coordinator marked failed is never moved to processing or completed.
C34_CompensatedJobNeverProcessed ==
    [][/\ \A c \in Calls :
            (call[c].pc = "compensate" /\ call'[c].pc = "done") =>
                message_body(call[c].job_id, call[c].user_id) \notin queue
       /\ \A j \in JobIds :
            (image_jobs_table[j].status = "failed"
             /\ image_jobs_table[j].error = "Failed to queue job") =>
                image_jobs_table'[j].status \notin
                    {"processing", "completed"}]_vars

\* C35 as claimed: the remainingQuota of a 200 response is never negative.
C35_RemainingQuotaNeverNegative ==
    \A c \in Calls :
        (Returned(c) /\ call[c].status_code = 200) =>
            call[c].remainingQuota >= 0

\* C36 as claimed: the quota check does not fail open. The step in which a
\* call passes the quota check is taken only while the stored counter of
\* (owner, today) is below DAILY_LIMIT, and a Job is created only for a
\* call whose check saw the stored counter below DAILY_LIMIT.
C36_QuotaCheckFailsClosed ==
    [][\A c \in Calls :
        /\ (call[c].pc = "idle" /\ call'[c].pc = "create") =>
                usage_log_table[call'[c].user_id][today] < DAILY_LIMIT
        /\ call'[c].created > call[c].created =>
                call[c].seen_usage < DAILY_LIMIT]_vars

\* totalImagesGenerated of a user, 0 when the attribute is absent
TotalImages(u) ==
    IF users_table[u].total < 0 THEN 0 ELSE users_table[u].total

\* the Jobs that reached completed with an output of user u
EverCompleted(u) ==
    {j \in JobIds : image_jobs_table[j].outputImageUrl = output_key(u, j)}

\* C37 as claimed: totalImagesGenerated counts each completed Job once, so
\* it never exceeds the number of distinct Jobs of the user that reached
\* completed, redeliveries included; and the failure branch that follows a
\* failed counter update leaves the Job just completed in completed.
C37_TotalCountsEachJobOnce ==
    /\ [](\A u \in Users : TotalImages(u) <= Cardinality(EverCompleted(u)))
    /\ [][(/\ wk.pc = "except"
           /\ wk.job_id # NoJob
           /\ image_jobs_table[wk.job_id].status = "completed") =>
                image_jobs_table'[wk.job_id].status = "completed"]_vars

\* the caller of the answered query is authenticated and is not the owner
\* of the Job the path names, which has a record
OtherCaller ==
    /\ query.pc = "done"
    /\ query.user_id # NoUser
    /\ query.job_id # NoJob
    /\ image_jobs_table[query.job_id].status # "absent"
    /\ image_jobs_table[query.job_id].userId # query.user_id

\* the response carries no field of a Job and no URL
DisclosesNothing == query.job = AbsentJob /\ query.url = NoKey

\* C38 as claimed: a query is answered 200 only to the owner of the Job;
\* to any other caller it is answered 403 and discloses nothing.
C38_OtherCallerGets403 ==
    /\ (query.pc = "done" /\ query.status_code = 200) =>
            image_jobs_table[query.job_id].userId = query.user_id
    /\ OtherCaller => (query.status_code = 403 /\ DisclosesNothing)

\* C38 amended: a query is answered 200 only when the caller's identity
\* equals the userId of the Job, and then the body carries that Job's
\* fields or a URL of that Job's output only; every other response carries
\* no field of a Job and no URL. A caller other than the owner is answered
\* 403 when the read of the Job returned and 404 when it raised; 403 is
\* answered to no one else.
C38_JobDataOnlyToOwner ==
    query.pc = "done" =>
        /\ query.status_code = 200 =>
                /\ query.user_id # NoUser
                /\ query.job_id # NoJob
                /\ image_jobs_table[query.job_id].userId = query.user_id
                /\ query.job # AbsentJob => query.job.userId = query.user_id
                /\ query.url # NoKey =>
                        query.url = output_key(query.user_id, query.job_id)
        /\ query.status_code # 200 => DisclosesNothing
        /\ OtherCaller =>
                /\ query.status_code = IF query.read_ok THEN 403 ELSE 404
                /\ DisclosesNothing
        /\ query.status_code = 403 => OtherCaller /\ query.read_ok

\* u2 asked for the download URL of u1's completed Job and got 403
C38_Witness ==
    /\ query.pc = "done"
    /\ query.handler = "download"
    /\ query.user_id = "u2"
    /\ query.job_id = 1
    /\ query.status_code = 403
    /\ image_jobs_table[1].status = "completed"
    /\ image_jobs_table[1].userId = "u1"
    /\ image_jobs_table[1].outputImageUrl = output_key("u1", 1)

====
